---- MODULE Spec2Model ----
(***************************************************************************)
(* CORD-19 metadata explorer: the one-shot analyzer (cord19_analysis.py)   *)
(* and the Streamlit dashboard (streamlit_app.py).                         *)
(*                                                                         *)
(* Text is a sequence of one-character strings.  A cell of a loaded table  *)
(* is NaN, a str, a Timestamp, NaT or a number; a table is a sequence of   *)
(* column names, the index labels of its rows and the rows (functions from *)
(* column name to cell).  The columns of the input are text columns, and   *)
(* its dates are written YYYY-MM-DD, as in the CORD-19 export.             *)
(***************************************************************************)
EXTENDS Integers, Sequences, FiniteSets, TLC

(***************************************************************************)
(* Bounds of the model.                                                    *)
(***************************************************************************)
\* rows of the file the analyzer is run on
MaxRows == 3

\* rows of the file the dashboard is run on
MaxDashboardRows == 2

\* modifications of the file while the dashboard is up
MaxEdits == 2

(***************************************************************************)
(* Characters and Python's str methods.                                    *)
(***************************************************************************)
UpperChars == <<"A","B","C","D","E","F","G","H","I","J","K","L","M",
                "N","O","P","Q","R","S","T","U","V","W","X","Y","Z">>

LowerChars == <<"a","b","c","d","e","f","g","h","i","j","k","l","m",
                "n","o","p","q","r","s","t","u","v","w","x","y","z">>

DigitChars == <<"0","1","2","3","4","5","6","7","8","9">>

Range(s) == {s[i] : i \in DOMAIN s}

Letters == Range(UpperChars) \cup Range(LowerChars)

Digits == Range(DigitChars)

Whitespace == {" ", "\t", "\n"}

\* [a-zA-Z]
IsAlpha(c) == c \in Letters

IsDigit(c) == c \in Digits

\* \w on the characters of the model: letters, digits and the underscore
IsWordChar(c) == c \in Letters \/ c \in Digits \/ c = "_"

\* what str.split() takes for whitespace
IsSpace(c) == c \in Whitespace

LowerOf == [c \in Range(UpperChars) |->
              LowerChars[CHOOSE i \in DOMAIN UpperChars : UpperChars[i] = c]]

LowerChar(c) == IF c \in DOMAIN LowerOf THEN LowerOf[c] ELSE c

\* str.lower()
Lower(s) == [i \in DOMAIN s |-> LowerChar(s[i])]

DigitVal(c) == (CHOOSE i \in DOMAIN DigitChars : DigitChars[i] = c) - 1

\* len(s.split(' ')): one more than the number of spaces
SplitLenOnSpace(s) == 1 + Cardinality({i \in DOMAIN s : s[i] = " "})

\* len(s.split()): a token starts at every non-space character that follows
\* the start of the text or a whitespace character
SplitLen(s) ==
    Cardinality({i \in DOMAIN s :
        /\ ~IsSpace(s[i])
        /\ (i = 1 \/ IsSpace(s[i - 1]))})

RECURSIVE JoinFrom(_, _)
\* ' '.join(texts[i:])
JoinFrom(texts, i) ==
    IF i > Len(texts) THEN <<>>
    ELSE IF i = Len(texts) THEN texts[i]
    ELSE texts[i] \o <<" ">> \o JoinFrom(texts, i + 1)

Join(texts) == JoinFrom(texts, 1)

(***************************************************************************)
(* Cells of a table.                                                       *)
(***************************************************************************)
NaN == [k |-> "NaN"]

NaT == [k |-> "NaT"]

Str(s) == [k |-> "str", s |-> s]

Num(v) == [k |-> "num", v |-> v]

Timestamp(y, m, d) == [k |-> "Timestamp", year |-> y, month |-> m, day |-> d]

\* pd.isna
IsNa(cell) == cell.k \in {"NaN", "NaT"}

PyNone == [k |-> "None"]

(***************************************************************************)
(* pd.read_csv: the header gives the columns, the rows are labelled 0, 1,  *)
(* ... and a field whose text is one of the default NA markers is missing. *)
(***************************************************************************)
NaValues == {
    <<>>,
    <<"#","N","/","A">>,
    <<"#","N","/","A"," ","N","/","A">>,
    <<"#","N","A">>,
    <<"-","1",".","#","I","N","D">>,
    <<"-","1",".","#","Q","N","A","N">>,
    <<"-","N","a","N">>,
    <<"-","n","a","n">>,
    <<"1",".","#","I","N","D">>,
    <<"1",".","#","Q","N","A","N">>,
    <<"<","N","A",">">>,
    <<"N","/","A">>,
    <<"N","A">>,
    <<"N","U","L","L">>,
    <<"N","a","N">>,
    <<"N","o","n","e">>,
    <<"n","/","a">>,
    <<"n","a","n">>,
    <<"n","u","l","l">> }

ReadField(text) == IF text \in NaValues THEN NaN ELSE Str(text)

ReadCsv(f) ==
    [k |-> "DataFrame",
     columns |-> f.columns,
     index |-> [i \in DOMAIN f.rows |-> i - 1],
     rows |-> [i \in DOMAIN f.rows |->
                 [c \in Range(f.columns) |-> ReadField(f.rows[i][c])]]]

(***************************************************************************)
(* DataFrame operations.                                                   *)
(***************************************************************************)
HasColumn(t, c) == c \in Range(t.columns)

\* len(df)
NRows(t) == Len(t.rows)

\* df[c], top to bottom
Column(t, c) == [i \in DOMAIN t.rows |-> t.rows[i][c]]

\* df[c] = values: an existing column is overwritten in place, a new one is
\* appended as the last column
Assign(t, c, values) ==
    [t EXCEPT
       !.columns = IF HasColumn(t, c) THEN @ ELSE Append(@, c),
       !.rows = [i \in DOMAIN @ |->
                   [d \in DOMAIN @[i] \cup {c} |->
                      IF d = c THEN values[i] ELSE @[i][d]]]]

RECURSIVE KeepFrom(_, _)
\* the positions i..len(mask) where the boolean mask is True, in order
KeepFrom(mask, i) ==
    IF i > Len(mask) THEN <<>>
    ELSE IF mask[i] THEN <<i>> \o KeepFrom(mask, i + 1)
    ELSE KeepFrom(mask, i + 1)

\* df[mask]: the rows where the mask is True, with their index labels
Filter(t, mask) ==
    LET keep == KeepFrom(mask, 1)
    IN  [t EXCEPT !.index = [j \in DOMAIN keep |-> t.index[keep[j]]],
                  !.rows = [j \in DOMAIN keep |-> t.rows[keep[j]]]]

\* df.dropna(): a row with any missing cell goes
DropnaAny(t) ==
    Filter(t, [i \in DOMAIN t.rows |->
                 \A c \in DOMAIN t.rows[i] : ~IsNa(t.rows[i][c])])

\* df.dropna(subset=['title'])
DropnaTitle(t) ==
    Filter(t, [i \in DOMAIN t.rows |-> ~IsNa(t.rows[i]["title"])])

\* df.empty: some axis has length 0
IsEmpty(t) == NRows(t) = 0 \/ Len(t.columns) = 0

(***************************************************************************)
(* clean_data.                                                             *)
(***************************************************************************)
DaysInMonth(y, m) ==
    IF m = 2
    THEN IF (y % 4 = 0 /\ y % 100 # 0) \/ y % 400 = 0 THEN 29 ELSE 28
    ELSE IF m \in {4, 6, 9, 11} THEN 30 ELSE 31

\* the date a text written YYYY-MM-DD stands for; errors='coerce' turns
\* every other text, and a date that does not exist, into NaT
ParseDate(s) ==
    IF /\ Len(s) = 10
       /\ s[5] = "-"
       /\ s[8] = "-"
       /\ \A i \in {1, 2, 3, 4, 6, 7, 9, 10} : IsDigit(s[i])
    THEN LET y == 1000 * DigitVal(s[1]) + 100 * DigitVal(s[2])
                  + 10 * DigitVal(s[3]) + DigitVal(s[4])
             m == 10 * DigitVal(s[6]) + DigitVal(s[7])
             d == 10 * DigitVal(s[9]) + DigitVal(s[10])
         IN  IF /\ y \in 1678..2261
                /\ m \in 1..12
                /\ d \in 1..DaysInMonth(y, m)
             THEN Timestamp(y, m, d)
             ELSE NaT
    ELSE NaT

\* a conversion that takes text alone and coerces every other cell to NaT
ToDatetimeTextOnly(cell) ==
    IF cell.k = "str" THEN ParseDate(cell.s) ELSE NaT

\* pd.to_datetime(value, errors='coerce') on one cell
ToDatetime(cell) ==
    CASE cell.k = "str" -> ParseDate(cell.s)
      [] cell.k = "Timestamp" -> cell
      [] cell.k \in {"NaN", "NaT"} -> NaT

\* .dt.year on one cell
DtYear(cell) == IF cell.k = "Timestamp" THEN Num(cell.year) ELSE NaN

\* .fillna('') on one cell
FillnaEmpty(cell) == IF IsNa(cell) THEN Str(<<>>) ELSE cell

\* .fillna('').str.split().str.len() on one cell
AbstractWordCount(cell) == Num(SplitLen(FillnaEmpty(cell).s))

ConvertPublishTime(t) ==
    LET parsed == Assign(t, "publish_time",
                         [i \in DOMAIN t.rows |->
                            ToDatetime(t.rows[i]["publish_time"])])
    IN  Assign(parsed, "year",
               [i \in DOMAIN parsed.rows |->
                  DtYear(parsed.rows[i]["publish_time"])])

CreateWordCount(t) ==
    Assign(t, "abstract_word_count",
           [i \in DOMAIN t.rows |-> AbstractWordCount(t.rows[i]["abstract"])])

CleanData(df) ==
    LET dated == IF HasColumn(df, "publish_time")
                 THEN ConvertPublishTime(df) ELSE df
        counted == IF HasColumn(dated, "abstract")
                   THEN CreateWordCount(dated) ELSE dated
    IN  IF HasColumn(counted, "title") THEN DropnaTitle(counted) ELSE counted

(***************************************************************************)
(* Counting: collections.Counter and Series.value_counts.                  *)
(***************************************************************************)
\* Counter(values).items(): the distinct values in order of first
\* occurrence, each with the number of its occurrences
Counter(values) ==
    LET first == KeepFrom([i \in DOMAIN values |->
                             \A j \in 1..(i - 1) : values[j] # values[i]], 1)
    IN  [j \in DOMAIN first |->
           [key |-> values[first[j]],
            n |-> Cardinality({i \in DOMAIN values :
                                 values[i] = values[first[j]]})]]

\* seq[:n]
HeadN(seq, n) == SubSeq(seq, 1, IF n < Len(seq) THEN n ELSE Len(seq))

\* sorted(items, key=count, reverse=True): a stable sort, items of equal
\* count keep their order
SortedByCountDesc(items) ==
    LET rank(i) == 1 + Cardinality({j \in DOMAIN items :
                        \/ items[j].n > items[i].n
                        \/ items[j].n = items[i].n /\ j < i})
    IN  [r \in DOMAIN items |->
           items[CHOOSE i \in DOMAIN items : rank(i) = r]]

\* Counter.most_common(n) is heapq.nlargest(n, items, key=count), which is
\* sorted(items, key=count, reverse=True)[:n]
MostCommon(items, n) == HeadN(SortedByCountDesc(items), n)

\* the values that are not missing, in order (dropna)
NotNa(values) ==
    LET keep == KeepFrom([i \in DOMAIN values |-> ~IsNa(values[i])], 1)
    IN  [j \in DOMAIN keep |-> values[keep[j]]]

\* Series.sort_values(ascending=False) with the default kind='quicksort',
\* which is not a stable sort: the counts come out non-increasing and the
\* order of equal counts is the sorting routine's, so every such order is
\* an outcome
SortValuesDesc(items) ==
    LET n == Len(items)
        perms == {p \in [1..n -> 1..n] :
                    /\ \A a, b \in 1..n : a # b => p[a] # p[b]
                    /\ \A a \in 1..n : a < n => items[p[a]].n >= items[p[a + 1]].n}
    IN  {[r \in 1..n |-> items[p[r]]] : p \in perms}

\* Series.value_counts(): missing values are not counted; the outcomes of
\* the descending sort
ValueCounts(values) == SortValuesDesc(Counter(NotNa(values)))

\* the counts left in the order of value_counts()
SortIndexNone(items) == items

\* Series.sort_index() of counts keyed by a number
SortIndex(items) ==
    LET rank(i) == 1 + Cardinality({j \in DOMAIN items :
                        items[j].key.v < items[i].key.v})
    IN  [r \in DOMAIN items |->
           items[CHOOSE i \in DOMAIN items : rank(i) = r]]

Series(items) == [k |-> "Series", items |-> items]

(***************************************************************************)
(* Title words.                                                            *)
(***************************************************************************)
\* \b at position i: exactly one of the characters before and at i is a
\* word character (the ends of the text count as non-word)
Boundary(s, i) ==
    LET before == i > 1 /\ IsWordChar(s[i - 1])
        after == i <= Len(s) /\ IsWordChar(s[i])
    IN  before # after

\* \b[a-zA-Z]{3,}\b tried at position i: the position after the match, 0
\* when there is none.  The quantifier is greedy and backtracks, so the
\* match is the longest run of 3 or more letters that ends at a boundary
MatchEnd(s, i) ==
    LET ends == {e \in (i + 3)..(Len(s) + 1) :
                   /\ \A j \in i..(e - 1) : IsAlpha(s[j])
                   /\ Boundary(s, e)}
    IN  IF Boundary(s, i) /\ ends # {}
        THEN CHOOSE e \in ends : \A f \in ends : f <= e
        ELSE 0

RECURSIVE FindAllFrom(_, _)
\* re.findall scanning from position i: a match is taken and the scan goes
\* on after it, otherwise it goes on at the next position
FindAllFrom(s, i) ==
    IF i > Len(s) THEN <<>>
    ELSE LET e == MatchEnd(s, i)
         IN  IF e # 0
             THEN <<SubSeq(s, i, e - 1)>> \o FindAllFrom(s, e)
             ELSE FindAllFrom(s, i + 1)

\* re.findall(r'\b[a-zA-Z]{3,}\b', s)
FindAll(s) == FindAllFrom(s, 1)

stop_words == {
    <<"t","h","e">>, <<"a","n","d">>, <<"f","o","r">>, <<"a","r","e">>,
    <<"w","i","t","h">>, <<"t","h","i","s">>, <<"t","h","a","t">>, <<"f","r","o","m">>,
    <<"t","h","e","y">>, <<"b","e","e","n">>, <<"h","a","v","e">>, <<"w","e","r","e">>,
    <<"s","a","i","d">>, <<"e","a","c","h">>, <<"w","h","i","c","h">>,
    <<"t","h","e","i","r">>, <<"t","i","m","e">>, <<"w","i","l","l">>,
    <<"a","b","o","u","t">>, <<"c","a","n">>, <<"w","h","e","n">>, <<"m","a","k","e">>,
    <<"l","i","k","e">>, <<"i","n","t","o">>, <<"h","i","m">>, <<"h","a","s">>,
    <<"t","w","o">>, <<"m","o","r","e">>, <<"h","e","r">>, <<"w","o","u","l","d">>,
    <<"t","h","e","r","e">>, <<"c","o","u","l","d">>, <<"w","a","y">>,
    <<"b","e","e","n">>, <<"w","h","o">>, <<"i","t","s">>, <<"n","o","w">>,
    <<"f","i","n","d">>, <<"l","o","n","g">>, <<"d","o","w","n">>, <<"d","a","y">>,
    <<"d","i","d">>, <<"g","e","t">>, <<"c","o","m","e">>, <<"m","a","d","e">>,
    <<"m","a","y">>, <<"p","a","r","t">> }

\* ' '.join(df['title'].fillna('').astype(str))
AllTitles(t) ==
    Join([i \in DOMAIN t.rows |-> FillnaEmpty(t.rows[i]["title"]).s])

\* the words found in the titles as written, not lowercased
TitleWordsNoLower(t) == FindAll(AllTitles(t))

\* words = re.findall(..., all_titles.lower())
TitleWords(t) == FindAll(Lower(AllTitles(t)))

\* [word for word in words if word not in stop_words]
FilteredWords(words) ==
    LET keep == KeepFrom([i \in DOMAIN words |-> words[i] \notin stop_words], 1)
    IN  [j \in DOMAIN keep |-> words[keep[j]]]

\* Counter(filtered_words).most_common(top_n)
WordFreq(t, n) == MostCommon(Counter(FilteredWords(TitleWords(t))), n)

(***************************************************************************)
(* The input: the metadata file.  Its fields are drawn from the texts      *)
(* below: titles with a stop word in mixed case and next to punctuation,   *)
(* with letters next to a digit or an underscore, with nothing but stop    *)
(* words, and a missing one; abstracts that are empty, blank, an NA marker *)
(* and of several tokens; dates that parse, that name no day, that are no  *)
(* date and that are missing.                                              *)
(***************************************************************************)
\* "The Virus."
TheVirus == <<"T","h","e"," ","V","i","r","u","s",".">>

\* "covid19 spreads"
Covid19Spreads == <<"c","o","v","i","d","1","9"," ","s","p","r","e","a","d","s">>

\* "Virus spreads"
VirusSpreads == <<"V","i","r","u","s"," ","s","p","r","e","a","d","s">>

\* "the AND"
TheAnd == <<"t","h","e"," ","A","N","D">>

\* "sars_cov THE virus"
SarsCov == <<"s","a","r","s","_","c","o","v"," ","T","H","E"," ","v","i","r","u","s">>

\* "ten words"
TenWords == <<"t","e","n"," ","w","o","r","d","s">>

\* "  "
Blank == <<" "," ">>

\* "n/a"
NotAvailable == <<"n","/","a">>

\* "a b\tc"
ABC == <<"a"," ","b","\t","c">>

\* "x"
X == <<"x">>

\* "2019-03-01"
Date2019 == <<"2","0","1","9","-","0","3","-","0","1">>

\* "2021-07-15"
Date2021 == <<"2","0","2","1","-","0","7","-","1","5">>

\* "not-a-date"
NotADate == <<"n","o","t","-","a","-","d","a","t","e">>

\* "2020-02-30"
NoSuchDay == <<"2","0","2","0","-","0","2","-","3","0">>

\* "Nature"
Nature == <<"N","a","t","u","r","e">>

\* "Lancet"
Lancet == <<"L","a","n","c","e","t">>

\* "Cell"
Cell == <<"C","e","l","l">>

\* "PMC"
PMC == <<"P","M","C">>

\* "WHO"
WHO == <<"W","H","O">>

AllColumns == <<"title", "abstract", "publish_time", "journal", "source_x">>

FileRow(title, abstract, publish_time, journal, source_x) ==
    [title |-> title, abstract |-> abstract, publish_time |-> publish_time,
     journal |-> journal, source_x |-> source_x]

RowPool == {
    FileRow(TheVirus, TenWords, Date2019, Nature, PMC),
    FileRow(Covid19Spreads, <<>>, NotADate, Lancet, WHO),
    FileRow(<<>>, NotAvailable, Date2021, Nature, PMC),
    FileRow(VirusSpreads, Blank, Date2021, Lancet, <<>>),
    FileRow(TheAnd, ABC, <<>>, <<>>, WHO),
    FileRow(SarsCov, X, NoSuchDay, Cell, PMC) }

\* the header of the file: every column, or all but one of them
Layouts ==
    {AllColumns} \cup
    {[j \in 1..(Len(AllColumns) - 1) |->
        IF j < i THEN AllColumns[j] ELSE AllColumns[j + 1]] :
     i \in DOMAIN AllColumns}

\* a row of the pool under a header
Under(cols, r) == [c \in Range(cols) |-> r[c]]

\* the files of at most max rows: one that can be read and one that cannot
\* (missing, or not valid delimited text)
Files(max) ==
    UNION {{[ok |-> ok, columns |-> cols,
             rows |-> [i \in 1..n |-> Under(cols, rs[i])]] :
              rs \in [1..n -> RowPool], cols \in Layouts, ok \in BOOLEAN} :
           n \in 0..max}

Unset == [k |-> "unset"]

\* top_n as the callers of the analyzer pass it
TopNs == {1, 2, 10}

(***************************************************************************)
(* State.                                                                  *)
(***************************************************************************)
VARIABLES
    file,            \* asset/metadata.csv
    mtime,           \* the number of times the file has been modified
    cache,           \* st.cache_data's entry for load_data()
    reads,           \* how often pd.read_csv has read the file
    pc,              \* the statement main() is at
    err,             \* the exception that ended the run, "none" otherwise
    df,
    cleaned_df,
    filtered_df,
    year_range,
    year_counts,
    journal_counts,
    word_freq,
    source_counts,
    report,          \* generate_report's figures, the dashboard's metrics
    csv,             \* the data handed to st.download_button
    top_n            \* the top_n of the last analysis called with one

vars == <<file, mtime, cache, reads, pc, err, df, cleaned_df, filtered_df,
          year_range, year_counts, journal_counts, word_freq, source_counts,
          report, csv, top_n>>

results == <<year_counts, journal_counts, word_freq, source_counts, report, csv,
             top_n>>

InitRun ==
    /\ err = "none"
    /\ df = Unset
    /\ cleaned_df = Unset
    /\ filtered_df = Unset
    /\ year_range = Unset
    /\ year_counts = Unset
    /\ journal_counts = Unset
    /\ word_freq = Unset
    /\ source_counts = Unset
    /\ report = Unset
    /\ csv = Unset
    /\ top_n = Unset

(***************************************************************************)
(* cord19_analysis.py: main() runs the analyzer's methods in order; an     *)
(* exception ends the process.  Drawing the charts and the word cloud is   *)
(* left to matplotlib and wordcloud and is not part of the model.          *)
(***************************************************************************)
InitAnalyzer ==
    /\ file \in Files(MaxRows)
    /\ mtime = 0
    /\ cache = {}
    /\ reads = 0
    /\ pc = "load_data"
    /\ InitRun

\* the exception raised at pc ends main()
Raise(e) ==
    /\ err' = e
    /\ pc' = "raised"

AnalyzerLoadData ==
    /\ pc = "load_data"
    /\ reads' = reads + 1
    /\ IF file.ok
       THEN /\ df' = ReadCsv(file)
            /\ pc' = "basic_exploration"
            /\ err' = err
       ELSE /\ Raise("OSError")
            /\ df' = df
    /\ UNCHANGED <<file, mtime, cache, cleaned_df, filtered_df, year_range, results>>

\* prints the shape, the columns, the first rows and the missing values
BasicExploration ==
    /\ pc = "basic_exploration"
    /\ pc' = "clean_data"
    /\ UNCHANGED <<file, mtime, cache, reads, err, df, cleaned_df, filtered_df,
                   year_range, results>>

AnalyzerCleanData ==
    /\ pc = "clean_data"
    /\ cleaned_df' = CleanData(df)
    /\ pc' = "analyze_publications_by_year"
    /\ UNCHANGED <<file, mtime, cache, reads, err, df, filtered_df, year_range,
                   results>>

(***************************************************************************)
(* Series reductions.                                                      *)
(***************************************************************************)
\* the numbers of a column, missing values skipped
Numbers(values) == {values[i].v : i \in {j \in DOMAIN values : ~IsNa(values[j])}}

\* Series.min(): NaN when every value is missing
SeriesMin(values) ==
    IF Numbers(values) = {} THEN NaN
    ELSE Num(CHOOSE x \in Numbers(values) : \A y \in Numbers(values) : x <= y)

\* Series.max()
SeriesMax(values) ==
    IF Numbers(values) = {} THEN NaN
    ELSE Num(CHOOSE x \in Numbers(values) : \A y \in Numbers(values) : x >= y)

\* Series.nunique(): the distinct values that are not missing
NUnique(values) == Cardinality({values[i] : i \in DOMAIN values} \ {NaN, NaT})

RECURSIVE SumFrom(_, _)
SumFrom(values, i) ==
    IF i > Len(values) THEN 0
    ELSE (IF IsNa(values[i]) THEN 0 ELSE values[i].v) + SumFrom(values, i + 1)

\* Series.mean(): the sum over the count of the values that are not missing,
\* NaN when there is none
SeriesMean(values) ==
    IF Len(NotNa(values)) = 0 THEN NaN
    ELSE [k |-> "ratio", sum |-> SumFrom(values, 1), count |-> Len(NotNa(values))]

(***************************************************************************)
(* The analyzer's analyses.  Each returns None when its column is absent;  *)
(* subscripting the table by an absent column raises KeyError.             *)
(***************************************************************************)
NoYearColumn(t) == ~HasColumn(t, "year")

NoJournalColumn(t) == ~HasColumn(t, "journal")

NoTitleColumn(t) == ~HasColumn(t, "title")

\* the guard of analyze_top_journals copied into analyze_sources
NoSourceColumnWrong(t) == ~HasColumn(t, "journal")

NoSourceColumn(t) == ~HasColumn(t, "source_x")

\* df['year'].value_counts().sort_index(), for each outcome of the sort by
\* count that comes first
YearCounts(t) == {Series(SortIndex(vc)) : vc \in ValueCounts(Column(t, "year"))}

\* df[column].value_counts().head(top_n)
TopCounts(t, column, n) ==
    {Series(HeadN(vc, n)) : vc \in ValueCounts(Column(t, column))}

AnalyzePublicationsByYear ==
    /\ pc = "analyze_publications_by_year"
    /\ IF NoYearColumn(cleaned_df)
       THEN /\ year_counts' = PyNone
            /\ pc' = "analyze_top_journals"
            /\ err' = err
       ELSE IF ~HasColumn(cleaned_df, "year")
       THEN /\ Raise("KeyError")
            /\ year_counts' = year_counts
       ELSE /\ year_counts' \in YearCounts(cleaned_df)
            /\ pc' = "analyze_top_journals"
            /\ err' = err
    /\ UNCHANGED <<file, mtime, cache, reads, df, cleaned_df, filtered_df,
                   year_range, journal_counts, word_freq, source_counts,
                   report, csv, top_n>>

AnalyzeTopJournals(n) ==
    /\ top_n' = n
    /\ pc = "analyze_top_journals"
    /\ IF NoJournalColumn(cleaned_df)
       THEN /\ journal_counts' = PyNone
            /\ pc' = "analyze_title_words"
            /\ err' = err
       ELSE IF ~HasColumn(cleaned_df, "journal")
       THEN /\ Raise("KeyError")
            /\ journal_counts' = journal_counts
       ELSE /\ journal_counts' \in TopCounts(cleaned_df, "journal", n)
            /\ pc' = "analyze_title_words"
            /\ err' = err
    /\ UNCHANGED <<file, mtime, cache, reads, df, cleaned_df, filtered_df,
                   year_range, year_counts, word_freq, source_counts,
                   report, csv>>

\* after counting, the words and counts are unzipped for the bar chart:
\* words, counts = zip(*word_freq) raises ValueError when word_freq is empty
AnalyzeTitleWords(n) ==
    /\ top_n' = n
    /\ pc = "analyze_title_words"
    /\ IF NoTitleColumn(cleaned_df)
       THEN /\ word_freq' = PyNone
            /\ pc' = "create_wordcloud"
            /\ err' = err
       ELSE IF ~HasColumn(cleaned_df, "title")
       THEN /\ Raise("KeyError")
            /\ word_freq' = word_freq
       ELSE LET found == WordFreq(cleaned_df, n)
            IN  IF found = <<>>
                THEN /\ Raise("ValueError")
                     /\ word_freq' = word_freq
                ELSE /\ word_freq' = [k |-> "list", items |-> found]
                     /\ pc' = "create_wordcloud"
                     /\ err' = err
    /\ UNCHANGED <<file, mtime, cache, reads, df, cleaned_df, filtered_df,
                   year_range, year_counts, journal_counts, source_counts,
                   report, csv>>

\* joins the titles and hands them to WordCloud
CreateWordcloud ==
    /\ pc = "create_wordcloud"
    /\ pc' = "analyze_sources"
    /\ UNCHANGED <<file, mtime, cache, reads, err, df, cleaned_df, filtered_df,
                   year_range, results>>

AnalyzeSources(n) ==
    /\ top_n' = n
    /\ pc = "analyze_sources"
    /\ IF NoSourceColumn(cleaned_df)
       THEN /\ source_counts' = PyNone
            /\ pc' = "generate_report"
            /\ err' = err
       ELSE IF ~HasColumn(cleaned_df, "source_x")
       THEN /\ Raise("KeyError")
            /\ source_counts' = source_counts
       ELSE /\ source_counts' \in TopCounts(cleaned_df, "source_x", n)
            /\ pc' = "generate_report"
            /\ err' = err
    /\ UNCHANGED <<file, mtime, cache, reads, df, cleaned_df, filtered_df,
                   year_range, year_counts, journal_counts, word_freq,
                   report, csv>>

\* each figure is printed only when its column is there; a NaN year or mean
\* prints as "nan"
GenerateReport ==
    /\ pc = "generate_report"
    /\ report' =
         [total |-> NRows(cleaned_df),
          min_year |-> IF HasColumn(cleaned_df, "year")
                       THEN SeriesMin(Column(cleaned_df, "year")) ELSE PyNone,
          max_year |-> IF HasColumn(cleaned_df, "year")
                       THEN SeriesMax(Column(cleaned_df, "year")) ELSE PyNone,
          unique_journals |-> IF HasColumn(cleaned_df, "journal")
                              THEN Num(NUnique(Column(cleaned_df, "journal")))
                              ELSE PyNone,
          avg_abstract_length |->
              IF HasColumn(cleaned_df, "abstract_word_count")
              THEN SeriesMean(Column(cleaned_df, "abstract_word_count"))
              ELSE PyNone]
    /\ pc' = "done"
    /\ UNCHANGED <<file, mtime, cache, reads, err, df, cleaned_df, filtered_df,
                   year_range, year_counts, journal_counts, word_freq,
                   source_counts, csv, top_n>>

NextAnalyzer ==
    \/ AnalyzerLoadData
    \/ BasicExploration
    \/ AnalyzerCleanData
    \/ AnalyzePublicationsByYear
    \/ \E n \in TopNs : AnalyzeTopJournals(n)
    \/ \E n \in TopNs : AnalyzeTitleWords(n)
    \/ CreateWordcloud
    \/ \E n \in TopNs : AnalyzeSources(n)
    \/ GenerateReport

SpecAnalyzer == InitAnalyzer /\ [][NextAnalyzer]_vars

(***************************************************************************)
(* streamlit_app.py: Streamlit runs main() from the top on every rerun (a  *)
(* widget is touched, the page is reloaded).  st.cache_data keeps the      *)
(* return value of a function under the function and the arguments of the *)
(* call, for as long as the server runs.  An uncaught exception ends the   *)
(* run and is shown on the page; charts and the word cloud are drawn by    *)
(* plotly and wordcloud and are not part of the model.                     *)
(***************************************************************************)
\* the key of a call of load_data(): the function takes no argument, so
\* neither the path nor the modification time of the file is in the key
LoadDataKey(path, modified) == <<"load_data">>

CacheHit(key) == \E e \in cache : e.key = key

CacheValue(key) == (CHOOSE e \in cache : e.key = key).value

\* the body of load_data: the table, or None once st.error has shown the
\* exception of pd.read_csv
LoadDataBody(f) == IF f.ok THEN ReadCsv(f) ELSE PyNone

\* the range without its upper end
YearMaskExclusive(t, lo, hi) ==
    [i \in DOMAIN t.rows |->
       /\ ~IsNa(t.rows[i]["year"])
       /\ t.rows[i]["year"].v >= lo
       /\ t.rows[i]["year"].v < hi]

\* (df['year'] >= lo) & (df['year'] <= hi): a comparison with NaN is False
YearMask(t, lo, hi) ==
    [i \in DOMAIN t.rows |->
       /\ ~IsNa(t.rows[i]["year"])
       /\ t.rows[i]["year"].v >= lo
       /\ t.rows[i]["year"].v <= hi]

\* df.to_csv(index=False): the header and the rows' cells in the order of
\* the columns, without the index (the cells are kept as values, their
\* rendering as text is not modelled)
ToCsv(t) ==
    [k |-> "csv",
     header |-> t.columns,
     records |-> [i \in DOMAIN t.rows |->
                    [j \in DOMAIN t.columns |-> t.rows[i][t.columns[j]]]]]

JournalTopNs == {5, 10, 15, 20}

WordTopNs == {10, 15, 20, 25}

Ended == {"done", "stopped", "raised"}

InitDashboard ==
    /\ file \in Files(MaxDashboardRows)
    /\ mtime = 0
    /\ cache = {}
    /\ reads = 0
    /\ pc = "load_data"
    /\ InitRun

\* the next run of the script starts with fresh locals
Rerun ==
    /\ pc \in Ended
    /\ pc' = "load_data"
    /\ err' = "none"
    /\ df' = Unset
    /\ cleaned_df' = Unset
    /\ filtered_df' = Unset
    /\ year_range' = Unset
    /\ year_counts' = Unset
    /\ journal_counts' = Unset
    /\ word_freq' = Unset
    /\ source_counts' = Unset
    /\ report' = Unset
    /\ csv' = Unset
    /\ top_n' = Unset
    /\ UNCHANGED <<file, mtime, cache, reads>>

\* the user changes the file between two runs: makes it unreadable or
\* readable again, adds a row or removes the last one
ModifyFile ==
    /\ pc \in Ended
    /\ mtime < MaxEdits
    /\ mtime' = mtime + 1
    /\ \/ file' = [file EXCEPT !.ok = ~@]
       \/ /\ Len(file.rows) < MaxDashboardRows
          /\ \E r \in RowPool :
               file' = [file EXCEPT !.rows = Append(@, Under(file.columns, r))]
       \/ /\ Len(file.rows) > 0
          /\ file' = [file EXCEPT !.rows = SubSeq(@, 1, Len(@) - 1)]
    /\ UNCHANGED <<cache, reads, pc, err, df, cleaned_df, filtered_df,
                   year_range, results>>

LoadData ==
    /\ pc = "load_data"
    /\ LET key == LoadDataKey("asset/metadata.csv", mtime)
       IN  IF CacheHit(key)
           THEN /\ df' = CacheValue(key)
                /\ UNCHANGED <<cache, reads>>
           ELSE /\ df' = LoadDataBody(file)
                /\ cache' = cache \cup {[key |-> key, value |-> LoadDataBody(file)]}
                /\ reads' = reads + 1
    /\ pc' = "check_df"
    /\ UNCHANGED <<file, mtime, err, cleaned_df, filtered_df, year_range, results>>

\* if df is None: st.stop()
StopIfNone ==
    /\ pc = "check_df"
    /\ pc' = IF df = PyNone THEN "stopped" ELSE "clean_data"
    /\ UNCHANGED <<file, mtime, cache, reads, err, df, cleaned_df, filtered_df,
                   year_range, results>>

\* clean_data is cached under the table it is given, and cleans it alike
\* every time
DashboardCleanData ==
    /\ pc = "clean_data"
    /\ cleaned_df' = CleanData(df)
    /\ pc' = "year_filter"
    /\ UNCHANGED <<file, mtime, cache, reads, err, df, filtered_df, year_range,
                   results>>

\* int(cleaned_df['year'].min()) raises ValueError on NaN; the slider hands
\* back a range within [min_year, max_year]
YearFilter ==
    /\ pc = "year_filter"
    /\ IF ~HasColumn(cleaned_df, "year")
       THEN /\ filtered_df' = cleaned_df
            /\ pc' = "metrics"
            /\ UNCHANGED <<err, year_range>>
       ELSE IF SeriesMin(Column(cleaned_df, "year")) = NaN
       THEN /\ Raise("ValueError")
            /\ UNCHANGED <<filtered_df, year_range>>
       ELSE /\ \E lo, hi \in SeriesMin(Column(cleaned_df, "year")).v ..
                             SeriesMax(Column(cleaned_df, "year")).v :
                 /\ lo <= hi
                 /\ year_range' = <<lo, hi>>
                 /\ filtered_df' = Filter(cleaned_df, YearMask(cleaned_df, lo, hi))
            /\ pc' = "metrics"
            /\ err' = err
    /\ UNCHANGED <<file, mtime, cache, reads, df, cleaned_df, results>>

\* the three st.metric figures; a NaN mean is shown as "nan words"
Metrics ==
    /\ pc = "metrics"
    /\ report' =
         [total |-> NRows(filtered_df),
          unique_journals |-> IF HasColumn(filtered_df, "journal")
                              THEN Num(NUnique(Column(filtered_df, "journal")))
                              ELSE PyNone,
          avg_abstract_length |->
              IF HasColumn(filtered_df, "abstract_word_count")
              THEN SeriesMean(Column(filtered_df, "abstract_word_count"))
              ELSE PyNone]
    /\ pc' = "tab1"
    /\ UNCHANGED <<file, mtime, cache, reads, err, df, cleaned_df, filtered_df,
                   year_range, year_counts, journal_counts, word_freq,
                   source_counts, csv, top_n>>

\* year_counts.idxmax() raises ValueError on an empty Series
PublicationsTab ==
    /\ pc = "tab1"
    /\ IF ~HasColumn(filtered_df, "year")
       THEN /\ pc' = "tab2"
            /\ UNCHANGED <<err, year_counts>>
       ELSE /\ year_counts' \in YearCounts(filtered_df)
            /\ IF year_counts'.items = <<>>
               THEN Raise("ValueError")
               ELSE pc' = "tab2" /\ err' = err
    /\ UNCHANGED <<file, mtime, cache, reads, df, cleaned_df, filtered_df,
                   year_range, journal_counts, word_freq, source_counts,
                   report, csv, top_n>>

JournalsTab(n) ==
    /\ top_n' = n
    /\ pc = "tab2"
    /\ IF HasColumn(filtered_df, "journal")
       THEN journal_counts' \in TopCounts(filtered_df, "journal", n)
       ELSE journal_counts' = journal_counts
    /\ pc' = "tab3"
    /\ UNCHANGED <<file, mtime, cache, reads, err, df, cleaned_df, filtered_df,
                   year_range, year_counts, word_freq, source_counts,
                   report, csv>>

\* the bar chart is drawn only if word_freq: is true
TitleTab(n) ==
    /\ top_n' = n
    /\ pc = "tab3"
    /\ IF HasColumn(filtered_df, "title")
       THEN word_freq' = [k |-> "list", items |-> WordFreq(filtered_df, n)]
       ELSE word_freq' = word_freq
    /\ pc' = "tab4"
    /\ UNCHANGED <<file, mtime, cache, reads, err, df, cleaned_df, filtered_df,
                   year_range, year_counts, journal_counts, source_counts,
                   report, csv>>

WordCloudTab ==
    /\ pc = "tab4"
    /\ pc' = "tab5"
    /\ UNCHANGED <<file, mtime, cache, reads, err, df, cleaned_df, filtered_df,
                   year_range, results>>

\* the download button is made only for a table that is not empty; its
\* file_name reads year_range, which is bound only when there is a year
\* column: NameError otherwise
DataTab ==
    /\ pc = "tab5"
    /\ IF IsEmpty(filtered_df)
       THEN /\ pc' = "done"
            /\ UNCHANGED <<err, csv>>
       ELSE IF year_range = Unset
       THEN /\ Raise("NameError")
            /\ csv' = csv
       ELSE /\ csv' = ToCsv(filtered_df)
            /\ pc' = "done"
            /\ err' = err
    /\ UNCHANGED <<file, mtime, cache, reads, df, cleaned_df, filtered_df,
                   year_range, year_counts, journal_counts, word_freq,
                   source_counts, report, top_n>>

Next ==
    \/ Rerun
    \/ ModifyFile
    \/ LoadData
    \/ StopIfNone
    \/ DashboardCleanData
    \/ YearFilter
    \/ Metrics
    \/ PublicationsTab
    \/ \E n \in JournalTopNs : JournalsTab(n)
    \/ \E n \in WordTopNs : TitleTab(n)
    \/ WordCloudTab
    \/ DataTab

Spec == InitDashboard /\ [][Next]_vars

(***************************************************************************)
(* Properties of the cleaner (checked on the analyzer's run).              *)
(***************************************************************************)
Cleaned == cleaned_df # Unset

\* C1: cleaning is idempotent: cleaning the cleaned table again gives the
\* cleaned table, with the same rows in the same order and the same
\* publish_time, year and abstract_word_count in every row.
C1_CleanIdempotent == Cleaned => CleanData(cleaned_df) = cleaned_df

\* a cleaned table that lost a row, holds a parsed date, a date that became
\* NaT and an abstract of several words
C1_Witness ==
    /\ Cleaned
    /\ NRows(cleaned_df) < NRows(df)
    /\ HasColumn(cleaned_df, "year")
    /\ HasColumn(cleaned_df, "abstract_word_count")
    /\ \E i \in DOMAIN cleaned_df.rows :
         /\ cleaned_df.rows[i]["publish_time"].k = "Timestamp"
         /\ cleaned_df.rows[i]["abstract_word_count"].v >= 2
    /\ \E i \in DOMAIN cleaned_df.rows :
         cleaned_df.rows[i]["publish_time"] = NaT

\* C2: the cleaned table holds exactly the input rows whose title is not
\* missing, in their original order: no cleaned row has a missing title and
\* no row with a title is dropped.
C2_MissingTitlesDropped ==
    (Cleaned /\ HasColumn(df, "title")) =>
        /\ \A i \in DOMAIN df.rows :
             (df.index[i] \in Range(cleaned_df.index)) <=> ~IsNa(df.rows[i]["title"])
        /\ \A j \in DOMAIN cleaned_df.rows :
             /\ ~IsNa(cleaned_df.rows[j]["title"])
             /\ \E i \in DOMAIN df.rows :
                  /\ df.index[i] = cleaned_df.index[j]
                  /\ \A c \in Range(df.columns) \ {"publish_time"} :
                       cleaned_df.rows[j][c] = df.rows[i][c]
        /\ \A j \in DOMAIN cleaned_df.rows :
             j > 1 => cleaned_df.index[j - 1] < cleaned_df.index[j]

\* a row with a missing title was dropped from between two rows that stay
C2_Witness ==
    /\ Cleaned
    /\ HasColumn(df, "title")
    /\ NRows(df) = 3
    /\ cleaned_df.index = <<0, 2>>

\* the number of whitespace-separated tokens of a text: the places where a
\* token ends
Tokens(s) ==
    Cardinality({i \in DOMAIN s :
        /\ s[i] \notin Whitespace
        /\ (i = Len(s) \/ s[i + 1] \in Whitespace)})

\* C3: in every row of a cleaned table abstract_word_count is a non-negative
\* integer, the number of whitespace-separated tokens of the abstract, and it
\* is 0 exactly when the abstract is missing, empty or only whitespace.
C3_AbstractWordCount ==
    (Cleaned /\ HasColumn(cleaned_df, "abstract")) =>
        \A i \in DOMAIN cleaned_df.rows :
            LET abstract == cleaned_df.rows[i]["abstract"]
                count == cleaned_df.rows[i]["abstract_word_count"]
            IN  /\ count.k = "num"
                /\ count.v \in Nat
                /\ count.v = IF IsNa(abstract) THEN 0 ELSE Tokens(abstract.s)
                /\ count.v = 0 <=>
                     \/ IsNa(abstract)
                     \/ \A j \in DOMAIN abstract.s : abstract.s[j] \in Whitespace

\* a blank abstract counted 0 beside one of three tokens, one after a tab
C3_Witness ==
    /\ Cleaned
    /\ HasColumn(cleaned_df, "abstract")
    /\ \E i, j \in DOMAIN cleaned_df.rows :
         /\ cleaned_df.rows[i]["abstract"] = Str(Blank)
         /\ cleaned_df.rows[i]["abstract_word_count"] = Num(0)
         /\ cleaned_df.rows[j]["abstract"] = Str(ABC)
         /\ cleaned_df.rows[j]["abstract_word_count"] = Num(3)

(***************************************************************************)
(* Properties of the analyses.                                             *)
(***************************************************************************)
RECURSIVE SumCounts(_, _)
SumCounts(items, i) ==
    IF i > Len(items) THEN 0 ELSE items[i].n + SumCounts(items, i + 1)

\* the rows of the cleaned table whose year is not missing
RowsWithYear == {i \in DOMAIN cleaned_df.rows : cleaned_df.rows[i]["year"].k = "num"}

\* C4: publications-by-year has, in ascending order of the year, one entry
\* for every year that occurs, with the number of rows of that year; rows
\* with a missing year are in no entry, so the counts add up to the number
\* of rows that have a year.
C4_PublicationsByYear ==
    (Cleaned /\ year_counts # Unset /\ year_counts # PyNone) =>
        LET items == year_counts.items
        IN  /\ \A a \in DOMAIN items :
                 /\ items[a].key.k = "num"
                 /\ items[a].n > 0
                 /\ items[a].n = Cardinality({i \in RowsWithYear :
                                     cleaned_df.rows[i]["year"] = items[a].key})
                 /\ a > 1 => items[a - 1].key.v < items[a].key.v
            /\ \A i \in RowsWithYear :
                 \E a \in DOMAIN items : items[a].key = cleaned_df.rows[i]["year"]
            /\ SumCounts(items, 1) = Cardinality(RowsWithYear)

\* the table lists 2021 before 2019 and has a row without a year
C4_Witness ==
    /\ Cleaned
    /\ year_counts # Unset
    /\ year_counts # PyNone
    /\ Len(year_counts.items) = 2
    /\ NRows(cleaned_df) = 3
    /\ cleaned_df.rows[1]["year"] = Num(2021)
    /\ cleaned_df.rows[2]["year"] = NaN
    /\ cleaned_df.rows[3]["year"] = Num(2019)

\* C7: each of the four analyses returns an empty result (None) and raises
\* nothing when the column it groups on is not in the cleaned table.
C7_AbsentColumn ==
    Cleaned =>
        /\ err # "KeyError"
        /\ (NoYearColumn(cleaned_df)
              /\ pc \notin {"analyze_publications_by_year"})
           => year_counts = PyNone
        /\ (NoJournalColumn(cleaned_df)
              /\ pc \notin {"analyze_publications_by_year", "analyze_top_journals"})
           => journal_counts = PyNone
        /\ (NoTitleColumn(cleaned_df)
              /\ pc \notin {"analyze_publications_by_year", "analyze_top_journals",
                            "analyze_title_words"})
           => (word_freq = PyNone /\ err = "none")
        /\ (NoSourceColumn(cleaned_df)
              /\ pc \notin {"analyze_publications_by_year", "analyze_top_journals",
                            "analyze_title_words", "create_wordcloud",
                            "analyze_sources"})
           => (source_counts = PyNone \/ pc = "raised")

\* the run is over, the source column is absent and the other results are there
C7_Witness ==
    /\ pc = "done"
    /\ NoSourceColumn(cleaned_df)
    /\ source_counts = PyNone
    /\ year_counts # PyNone
    /\ journal_counts # PyNone

\* items are the n keys of seq that occur most often, each with the number
\* of its occurrences, the more frequent first and, of two that occur
\* equally often, the one that occurs first in seq first
TopByCount(seq, items, n) ==
    LET keys == Range(seq)
        count(w) == Cardinality({i \in DOMAIN seq : seq[i] = w})
        first(w) == CHOOSE i \in DOMAIN seq :
                        /\ seq[i] = w
                        /\ \A j \in 1..(i - 1) : seq[j] # w
        before(v, w) == \/ count(v) > count(w)
                        \/ count(v) = count(w) /\ first(v) < first(w)
    IN  /\ Len(items) = IF n < Cardinality(keys) THEN n ELSE Cardinality(keys)
        /\ \A a \in DOMAIN items :
             /\ items[a].key \in keys
             /\ items[a].n = count(items[a].key)
        /\ \A a, b \in DOMAIN items : a < b => before(items[a].key, items[b].key)
        /\ \A w \in keys \ {items[a].key : a \in DOMAIN items} :
             \A a \in DOMAIN items : before(items[a].key, w)

\* the journals of the cleaned table's rows, top to bottom, missing ones left out
JournalsInOrder == NotNa(Column(cleaned_df, "journal"))

Nth(S, n) == CHOOSE i \in S : Cardinality({m \in S : m < i}) = n - 1

\* the last position of the run of letters that starts at i
RunEnd(s, i) ==
    CHOOSE e \in i..Len(s) :
        /\ \A j \in i..e : s[j] \in Letters
        /\ (e = Len(s) \/ s[e + 1] \notin Letters)

\* where a run of 3 or more letters starts, whatever is next to it
LetterRunStarts(s) ==
    {i \in DOMAIN s :
        /\ s[i] \in Letters
        /\ (i = 1 \/ s[i - 1] \notin Letters)
        /\ RunEnd(s, i) - i + 1 >= 3}

\* where a whole word of 3 or more letters starts: a run of letters with no
\* letter, digit or underscore next to it
WholeWordStarts(s) ==
    {i \in LetterRunStarts(s) :
        /\ (i = 1 \/ (s[i - 1] \notin Digits /\ s[i - 1] # "_"))
        /\ (RunEnd(s, i) = Len(s)
              \/ (s[RunEnd(s, i) + 1] \notin Digits /\ s[RunEnd(s, i) + 1] # "_"))}

\* the runs that start at the given places, left to right, stop words left out
CountedWords(s, starts) ==
    LET counted == {i \in starts : SubSeq(s, i, RunEnd(s, i)) \notin stop_words}
    IN  [j \in 1..Cardinality(counted) |->
           SubSeq(s, Nth(counted, j), RunEnd(s, Nth(counted, j)))]

\* the titles of the cleaned table in lower case, a space between two titles
TitleText == Lower(AllTitles(cleaned_df))

WordFreqReturned ==
    /\ pc = "create_wordcloud"
    /\ word_freq # PyNone

C8_LoadReturnsCurrentFile ==
    pc = "check_df" => df = IF file.ok THEN ReadCsv(file) ELSE PyNone

\* C9: once a table has loaded no later step raises, whatever its rows hold
\* and whichever optional column it lacks (stated for a table that has rows).
C9_NoErrorAfterLoad ==
    (df # Unset /\ df # PyNone /\ NRows(df) > 0) => err = "none"

\* the rows of the cleaned table whose year lies in the chosen range
InYearRange ==
    {i \in DOMAIN cleaned_df.rows :
        /\ cleaned_df.rows[i]["year"].k = "num"
        /\ cleaned_df.rows[i]["year"].v >= year_range[1]
        /\ cleaned_df.rows[i]["year"].v <= year_range[2]}

\* the records of the download are the cleaned rows of the range, in order
DownloadHasRowsOfRange ==
    /\ Len(csv.records) = Cardinality(InYearRange)
    /\ \A j \in DOMAIN csv.records :
         /\ Len(csv.records[j]) = Len(csv.header)
         /\ \A c \in DOMAIN csv.header :
              csv.records[j][c] = cleaned_df.rows[Nth(InYearRange, j)][csv.header[c]]

\* the columns clean_data adds to the input's
DerivedColumns ==
    (IF HasColumn(df, "publish_time") THEN <<"year">> ELSE <<>>)
    \o (IF HasColumn(df, "abstract") THEN <<"abstract_word_count">> ELSE <<>>)

\* C10 as amended: the CSV the dashboard offers for download has the input's
\* columns in the input's order followed by the derived columns year and
\* abstract_word_count (the latter when there is an abstract column), and
\* its rows are exactly the cleaned rows whose year lies in [lo, hi].
C10_Download ==
    csv # Unset =>
        /\ csv.header = df.columns \o DerivedColumns
        /\ DownloadHasRowsOfRange

\* C10 as claimed: the CSV has exactly the input's columns.
C10_Original ==
    csv # Unset =>
        /\ csv.header = df.columns
        /\ DownloadHasRowsOfRange

\* of two cleaned rows, of 2019 and 2021, the range [2019, 2020] keeps one
C10_Witness ==
    /\ csv # Unset
    /\ year_range = <<2019, 2020>>
    /\ NRows(cleaned_df) = 2
    /\ Len(csv.records) = 1
    /\ HasColumn(df, "abstract")

====
